---------------------------- MODULE Spec2Model ----------------------------
(***************************************************************************)
(* Model of src/ETLabR/ET-design/data/Data/code2/analysis_1_function.py:   *)
(* find_intersection, main_analysis (one waveform record) and              *)
(* data_integration (the loop over the files of a directory); and of       *)
(* temp_style of src/APL/APL2-3/code/ysy_plot_utils.py.                    *)
(*                                                                         *)
(* Numbers.  The program computes in binary floating point; the model      *)
(* computes the same expressions in exact rational arithmetic.  A rational *)
(* is a record [n, d] in lowest terms with d > 0.                          *)
(*                                                                         *)
(* Indices.  Python indexes from 0 and TLA+ sequences from 1: position p   *)
(* of a sequence here is Python index p - 1, so the pair (i, i + 1) of the *)
(* source is the pair (p, p + 1) here and time[i] is Time[p].              *)
(***************************************************************************)
EXTENDS Integers, Sequences, FiniteSets, TLC

(***************************************************************************)
(* Bounds of the model.                                                    *)
(***************************************************************************)
\* Samples per waveform range over window_length - 1 .. MaxLen.
MaxLen == 6
\* Files per directory listing in the batch specification.
MaxFiles == 3
\* Samples per channel when find_intersection is run on its own.
MaxSamples == 4
\* Samples of the channel when the level fit and the scans are run on their
\* own.
MaxLevelSamples == 5
\* temp_style contexts opened in one run, one inside the other or in a row.
MaxContexts == 2

(***************************************************************************)
(* Program constants.                                                      *)
(***************************************************************************)
\* main_analysis, line 53: window_length = 1511.  The window is scaled to
\* the smallest odd window that smooths with polyorder 3, so that waveforms
\* longer and shorter than the window can be enumerated.
window_length == 5
\* main_analysis, line 54.
polyorder == 3

(***************************************************************************)
(* Exact rational arithmetic.                                              *)
(***************************************************************************)
Abs(a) == IF a < 0 THEN -a ELSE a

RECURSIVE GCD(_, _)
GCD(a, b) == IF b = 0 THEN a ELSE GCD(b, a % b)

\* A division by zero gives a value with denominator 0 (numpy: inf or nan).
Rat(n, d) ==
    LET g == GCD(Abs(n), Abs(d))
        s == IF d < 0 THEN -1 ELSE 1
    IN IF g = 0 THEN [n |-> 0, d |-> 0]
       ELSE [n |-> (s * n) \div g, d |-> (s * d) \div g]

RInt(k) == [n |-> k, d |-> 1]
RAdd(a, b) == Rat(a.n * b.d + b.n * a.d, a.d * b.d)
RSub(a, b) == Rat(a.n * b.d - b.n * a.d, a.d * b.d)
RMul(a, b) == Rat(a.n * b.n, a.d * b.d)
RDiv(a, b) == Rat(a.n * b.d, a.d * b.n)
RLt(a, b) == a.n * b.d < b.n * a.d
RGt(a, b) == RLt(b, a)
RLe(a, b) == ~RLt(b, a)

RECURSIVE RSum(_)
RSum(s) == IF s = <<>> THEN RInt(0) ELSE RAdd(Head(s), RSum(Tail(s)))

\* np.max, np.min of a non-empty array.
np_max(s) == LET p == CHOOSE p \in 1..Len(s) : \A q \in 1..Len(s) : RLe(s[q], s[p])
             IN s[p]
np_min(s) == LET p == CHOOSE p \in 1..Len(s) : \A q \in 1..Len(s) : RLe(s[p], s[q])
             IN s[p]

\* The subsequence of s at the positions in idx, in ascending order (s[idx]
\* for an index array produced by np.where).
RECURSIVE Take(_, _, _)
Take(s, idx, p) ==
    IF p > Len(s) THEN <<>>
    ELSE (IF p \in idx THEN <<s[p]>> ELSE <<>>) \o Take(s, idx, p + 1)

\* The smallest member of a non-empty set of positions (np.where(..)[0][0]).
First(S) == CHOOSE p \in S : \A q \in S : p <= q

(***************************************************************************)
(* A local variable of main_analysis that has not been assigned.           *)
(***************************************************************************)
Unbound == [n |-> 0, d |-> 0]

(***************************************************************************)
(* scipy.signal.savgol_filter(y, window_length, polyorder), mode 'interp'. *)
(* For window 5 and order 3 the least-squares cubic through five points    *)
(* y[c-2..c+2] differs from the points by a multiple of their fourth       *)
(* difference D4 = y[c-2] - 4y[c-1] + 6y[c] - 4y[c+1] + y[c+2]:            *)
(* fitted value at offsets -2,-1,0,1,2 = y - (1,-4,6,-4,1) * D4 / 70.      *)
(* Interior samples take the value at the centre of their own window; the  *)
(* first and last two samples take the values of the cubic fitted to the   *)
(* first and last window (scipy's _fit_edges_polyfit).  A channel shorter  *)
(* than the window raises ValueError.                                      *)
(***************************************************************************)
D4(y, c) == y[c - 2] - 4 * y[c - 1] + 6 * y[c] - 4 * y[c + 1] + y[c + 2]

SavgolResidualWeight(off) == CASE off = -2 -> 1 [] off = -1 -> -4 [] off = 0 -> 6
                           [] off = 1 -> -4 [] off = 2 -> 1

SavgolCentre(y, p) ==
    LET N == Len(y)
        h == (window_length - 1) \div 2
    IN IF p <= h THEN h + 1 ELSE IF p > N - h THEN N - h ELSE p

savgol_filter_raises(y) == window_length > Len(y)

savgol_filter(y) ==
    [p \in 1..Len(y) |->
        LET c == SavgolCentre(y, p)
        IN Rat(70 * y[p] - SavgolResidualWeight(p - c) * D4(y, c), 70)]

(***************************************************************************)
(* scipy.optimize.curve_fit(flat_line, xdata, ydata)[0][0]: the constant   *)
(* that fits ydata by least squares, which is the mean of ydata; empty     *)
(* ydata raises ValueError.                                                *)
(***************************************************************************)
flat_line(x, a) == [p \in 1..Len(x) |-> a]

\* Mutant of curve_fit_raises: a fit to no samples goes through.
curve_fit_raises_never(xdata, ydata) == FALSE

curve_fit_raises(xdata, ydata) == Len(ydata) = 0

curve_fit(xdata, ydata) == RDiv(RSum(ydata), RInt(Len(ydata)))

(***************************************************************************)
(* find_intersection(x, y, level), lines 26-35.  x holds integers (sample  *)
(* times), y and level rationals.                                          *)
(***************************************************************************)
\* Mutant of Crosses: a sample on the level counts as on either side.
Crosses_nonstrict(y, level, p) ==
    \/ ~RLt(y[p], level) /\ ~RGt(y[p + 1], level)
    \/ ~RGt(y[p], level) /\ ~RLt(y[p + 1], level)

\* Mutant of Crosses: the later sample of the pair may lie on the level.
Crosses_touching(y, level, p) ==
    \/ RGt(y[p], level) /\ ~RGt(y[p + 1], level)
    \/ RLt(y[p], level) /\ ~RLt(y[p + 1], level)

Crosses(y, level, p) ==
    \/ RGt(y[p], level) /\ RLt(y[p + 1], level)
    \/ RLt(y[p], level) /\ RGt(y[p + 1], level)

\* Mutant of intersection_time: the fraction is not scaled by the spacing
\* of the two sample times.
intersection_time_unscaled(x, y, level, p) ==
    LET t == RDiv(RSub(level, y[p]), RSub(y[p + 1], y[p]))
    IN RAdd(RInt(x[p]), t)

intersection_time(x, y, level, p) ==
    LET t == RDiv(RSub(level, y[p]), RSub(y[p + 1], y[p]))
    IN RAdd(RInt(x[p]), RMul(t, RInt(x[p + 1] - x[p])))

\* Mutant of find_intersection_from: a crossing is put in front of the
\* crossings found so far.
RECURSIVE find_intersection_from_front(_, _, _, _)
find_intersection_from_front(x, y, level, p) ==
    IF p > Len(y) - 1 THEN <<>>
    ELSE find_intersection_from_front(x, y, level, p + 1)
         \o (IF Crosses(y, level, p)
             THEN <<intersection_time(x, y, level, p)>> ELSE <<>>)

RECURSIVE find_intersection_from(_, _, _, _)
find_intersection_from(x, y, level, p) ==
    IF p > Len(y) - 1 THEN <<>>
    ELSE (IF Crosses(y, level, p)
          THEN <<intersection_time(x, y, level, p)>> ELSE <<>>)
         \o find_intersection_from(x, y, level, p + 1)

find_intersection(x, y, level) == find_intersection_from(x, y, level, 1)

(***************************************************************************)
(* main_analysis(data), lines 38-94.  The value is the frame of the call   *)
(* when it ends: exc is "none" (it returned ret) or the type of the        *)
(* exception it raised, at names the statement that raised, msg is the     *)
(* exception's text, and the other fields are the local variables assigned *)
(* so far.                                                                 *)
(***************************************************************************)
NoLocals ==
    [exc |-> "none", at |-> "", msg |-> "",
     CH1 |-> <<>>, CH2 |-> <<>>,
     CH1_left_time |-> Unbound, CH1_right_time |-> Unbound,
     CH2_high_level |-> Unbound, CH2_low_level |-> Unbound,
     CH2_fall_start_time |-> Unbound, low_intersections |-> <<>>,
     CH2_rise_start_time |-> Unbound, CH2_fall_end_time |-> Unbound,
     CH2_fall_duration |-> Unbound, CH2_rise_end_time |-> Unbound,
     CH2_rise_duration |-> Unbound, rise_response_time |-> Unbound,
     fall_response_time |-> Unbound, ret |-> <<>>]

Raise(f, type, at, msg) == [f EXCEPT !.exc = type, !.at = at, !.msg = msg]

\* Mutant of rising_pairs: the later sample may equal the level.
rising_pairs_nonstrict(ch, level) ==
    {p \in 1..(Len(ch) - 1) : RLt(ch[p], level) /\ ~RLt(ch[p + 1], level)}

\* Lines 59, 87: positions p with ch[p] < level and ch[p + 1] > level.
rising_pairs(ch, level) ==
    {p \in 1..(Len(ch) - 1) : RLt(ch[p], level) /\ RGt(ch[p + 1], level)}

\* Lines 60, 73: positions p with ch[p] > level and ch[p + 1] < level.
\* Mutant of falling_pairs: the earlier sample of the pair may lie on the
\* level.
falling_pairs_nonstrict(ch, level) ==
    {p \in 1..(Len(ch) - 1) : ~RLt(ch[p], level) /\ RLt(ch[p + 1], level)}

falling_pairs(ch, level) ==
    {p \in 1..(Len(ch) - 1) : RGt(ch[p], level) /\ RLt(ch[p + 1], level)}

\* Lines 58, 64, 65: (np.max(ch) + np.min(ch)) / 2.
midpoint(ch) == RDiv(RAdd(np_max(ch), np_min(ch)), RInt(2))

\* Mutant of high_indices: the samples on the midpoint count as high.
high_indices_nonstrict(CH2) == {p \in 1..Len(CH2) : ~RLt(CH2[p], midpoint(CH2))}

\* Line 64 and line 65: np.where(CH2 > mid)[0] and np.where(CH2 < mid)[0].
high_indices(CH2) == {p \in 1..Len(CH2) : RGt(CH2[p], midpoint(CH2))}
low_indices(CH2) == {p \in 1..Len(CH2) : RLt(CH2[p], midpoint(CH2))}

\* Mutant of low_crossing_channel: the raw column is handed over.
low_crossing_channel_raw(ch2, CH2) == ch2

\* Line 77: the channel handed to find_intersection is CH2, the smoothed
\* response, not the raw column ch2.
low_crossing_channel(ch2, CH2) == CH2

\* Mutant of enough_intersections: exactly two are asked for.
enough_intersections_exact(n) == n = 2

\* Line 79: the test on the number of low-level intersections.
enough_intersections(n) == n >= 2

\* Lines 80-81: which intersection becomes which time.
rise_start_of(low_intersections) == low_intersections[1]
fall_end_of(low_intersections) == low_intersections[2]

\* Mutant of return_tuple: the two response times change places.
return_tuple_swapped(f) ==
    <<f.CH2_rise_duration, f.CH2_fall_duration,
      f.fall_response_time, f.rise_response_time>>

\* Line 94: the returned tuple.
return_tuple(f) ==
    <<f.CH2_rise_duration, f.CH2_fall_duration,
      f.rise_response_time, f.fall_response_time>>

Raw(ch) == [p \in 1..Len(ch) |-> RInt(ch[p])]

\* The call has raised nothing so far.
Running(f) == f.exc = "none"

\* Lines 52-56: both columns are smoothed, or savgol_filter raises.
smooth(f, data) ==
    IF savgol_filter_raises(data.CH1) \/ savgol_filter_raises(data.CH2) THEN
        Raise(f, "ValueError", "savgol_filter",
              "window_length must be less than or equal to the size of x")
    ELSE [f EXCEPT !.CH1 = savgol_filter(data.CH1),
                   !.CH2 = savgol_filter(data.CH2)]

\* Mutant of trigger_edges: the time of the later sample of the pair.
trigger_edges_later(f, data) ==
    IF ~Running(f) THEN f
    ELSE IF rising_pairs(f.CH1, midpoint(f.CH1)) = {} THEN
        Raise(f, "IndexError", "CH1_left_index",
              "index 0 is out of bounds for axis 0 with size 0")
    ELSE IF falling_pairs(f.CH1, midpoint(f.CH1)) = {} THEN
        Raise(f, "IndexError", "CH1_right_index",
              "index 0 is out of bounds for axis 0 with size 0")
    ELSE [f EXCEPT
            !.CH1_left_time =
                RInt(data.Time[First(rising_pairs(f.CH1, midpoint(f.CH1))) + 1]),
            !.CH1_right_time =
                RInt(data.Time[First(falling_pairs(f.CH1, midpoint(f.CH1))) + 1])]

\* Lines 57-62: the rising and the falling pair of the smoothed trigger.
trigger_edges(f, data) ==
    IF ~Running(f) THEN f
    ELSE IF rising_pairs(f.CH1, midpoint(f.CH1)) = {} THEN
        Raise(f, "IndexError", "CH1_left_index",
              "index 0 is out of bounds for axis 0 with size 0")
    ELSE IF falling_pairs(f.CH1, midpoint(f.CH1)) = {} THEN
        Raise(f, "IndexError", "CH1_right_index",
              "index 0 is out of bounds for axis 0 with size 0")
    ELSE [f EXCEPT
            !.CH1_left_time =
                RInt(data.Time[First(rising_pairs(f.CH1, midpoint(f.CH1)))]),
            !.CH1_right_time =
                RInt(data.Time[First(falling_pairs(f.CH1, midpoint(f.CH1)))])]

\* Lines 63-68: the high level.
fit_high(f, data) ==
    IF ~Running(f) THEN f
    ELSE IF curve_fit_raises(Take(data.Time, high_indices(f.CH2), 1),
                             Take(f.CH2, high_indices(f.CH2), 1)) THEN
        Raise(f, "ValueError", "popt_high", "ydata must not be empty!")
    ELSE [f EXCEPT !.CH2_high_level =
              curve_fit(Take(data.Time, high_indices(f.CH2), 1),
                        Take(f.CH2, high_indices(f.CH2), 1))]

\* Lines 69-71: the low level.
fit_low(f, data) ==
    IF ~Running(f) THEN f
    ELSE IF curve_fit_raises(Take(data.Time, low_indices(f.CH2), 1),
                             Take(f.CH2, low_indices(f.CH2), 1)) THEN
        Raise(f, "ValueError", "popt_low", "ydata must not be empty!")
    ELSE [f EXCEPT !.CH2_low_level =
              curve_fit(Take(data.Time, low_indices(f.CH2), 1),
                        Take(f.CH2, low_indices(f.CH2), 1))]

\* Mutant of fall_start: the raw column ch2 is scanned.
fall_start_raw(f, data) ==
    IF ~Running(f) THEN f
    ELSE IF falling_pairs(Raw(data.CH2), f.CH2_high_level) = {} THEN
        Raise(f, "IndexError", "CH2_fall_start_index",
              "index 0 is out of bounds for axis 0 with size 0")
    ELSE [f EXCEPT !.CH2_fall_start_time =
              RInt(data.Time[First(falling_pairs(Raw(data.CH2),
                                                 f.CH2_high_level))])]

\* Lines 72-74: the first pair falling through the high level.
fall_start(f, data) ==
    IF ~Running(f) THEN f
    ELSE IF falling_pairs(f.CH2, f.CH2_high_level) = {} THEN
        Raise(f, "IndexError", "CH2_fall_start_index",
              "index 0 is out of bounds for axis 0 with size 0")
    ELSE [f EXCEPT !.CH2_fall_start_time =
              RInt(data.Time[First(falling_pairs(f.CH2, f.CH2_high_level))])]

\* Line 77.
low_crossings(f, data) ==
    IF ~Running(f) THEN f
    ELSE [f EXCEPT !.low_intersections =
              find_intersection(data.Time,
                  low_crossing_channel(Raw(data.CH2), f.CH2),
                  f.CH2_low_level)]

\* Lines 79-85.
crossing_times(f, data) ==
    IF ~Running(f) THEN f
    ELSE IF ~enough_intersections(Len(f.low_intersections)) THEN
        Raise(f, "ValueError", "low_intersections",
              "two low-level intersections not found, check the data quality")
    ELSE [f EXCEPT
            !.CH2_rise_start_time = rise_start_of(f.low_intersections),
            !.CH2_fall_end_time = fall_end_of(f.low_intersections),
            !.CH2_fall_duration =
                RSub(fall_end_of(f.low_intersections), f.CH2_fall_start_time)]

\* Lines 86-89: the first pair rising through the high level.
rise_end(f, data) ==
    IF ~Running(f) THEN f
    ELSE IF rising_pairs(f.CH2, f.CH2_high_level) = {} THEN
        Raise(f, "IndexError", "CH2_rise_end_index",
              "index 0 is out of bounds for axis 0 with size 0")
    ELSE [f EXCEPT
            !.CH2_rise_end_time =
                RInt(data.Time[First(rising_pairs(f.CH2, f.CH2_high_level))]),
            !.CH2_rise_duration =
                RSub(RInt(data.Time[First(rising_pairs(f.CH2, f.CH2_high_level))]),
                     f.CH2_rise_start_time)]

\* Lines 90-92.
response_times(f, data) ==
    IF ~Running(f) THEN f
    ELSE [f EXCEPT
            !.rise_response_time = RSub(f.CH2_rise_start_time, f.CH1_left_time),
            !.fall_response_time = RSub(f.CH2_fall_start_time, f.CH1_right_time)]

\* Mutant of return: the tuple is built from whatever locals are bound,
\* also after a statement has raised.
return_partial(f, data) ==
    IF ~Running(f) THEN [f EXCEPT !.ret = return_tuple(f)]
    ELSE [f EXCEPT !.at = "return", !.ret = return_tuple(f)]

\* Line 94.
return(f, data) ==
    IF ~Running(f) THEN f
    ELSE [f EXCEPT !.at = "return", !.ret = return_tuple(f)]

main_analysis(data) ==
    return(response_times(rise_end(crossing_times(low_crossings(fall_start(
        fit_low(fit_high(trigger_edges(smooth(NoLocals, data),
        data), data), data), data), data), data), data), data), data)

(***************************************************************************)
(* Waveform records (the DataFrame read from one CSV file): the columns    *)
(* Time(s), CH1(V), CH2(V), of equal length, the times increasing.         *)
(***************************************************************************)
Wave(ch1, ch2) ==
    [Time |-> [p \in 1..Len(ch1) |-> p - 1], CH1 |-> ch1, CH2 |-> ch2]

Lengths == (window_length - 1)..MaxLen

\* Trigger columns: a 0/1 signal with at most two transitions.
Transitions(ch) == Cardinality({p \in 1..(Len(ch) - 1) : ch[p] # ch[p + 1]})
Triggers(N) == {ch \in [1..N -> {0, 1}] : Transitions(ch) <= 2}

\* Response columns: raw samples of 0 V and 1 V.
Volts == {0, 1}
Responses(N) == [1..N -> Volts]

Waveforms ==
    UNION {{Wave(ch1, ch2) : ch1 \in Triggers(N), ch2 \in Responses(N)} :
           N \in Lengths}

(***************************************************************************)
(* File names.  Python splits and parses the name as a string; here a name *)
(* is the record of its parts: last is the last blank-separated word       *)
(* without the extension and ext the extension, so that                    *)
(* file_name.endswith(".csv") is ext = ".csv" and                          *)
(* file_name.split()[-1].replace(".csv", "") is last.                      *)
(***************************************************************************)
endswith_csv(file_name) == file_name.ext = ".csv"

label_of(file_name) == file_name.last

\* float(s): the strings of the model that Python parses, with their values.
float_raises(s) == s \notin {"1", "3", "5"}

float(s) == CASE s = "1" -> 1 [] s = "3" -> 3 [] s = "5" -> 5

(***************************************************************************)
(* data_integration(file_path), lines 96-134.                              *)
(***************************************************************************)
VARIABLES
    listing,                  \* os.listdir(file_path), each name with the data of its file
    i,                        \* names of the listing the for loop has consumed
    pc,                       \* "loop", "returned" or "raised"
    voltage_group,
    rise_time_group,
    fall_time_group,
    rise_response_time_group,
    fall_response_time_group,
    origin,                   \* history: for each list, the listing position
                              \* of the file that each entry came from
    stdout,                   \* what print has written
    frame,                    \* the frame of the latest main_analysis call
    result                    \* the tuple returned

vars == <<listing, i, pc, voltage_group, rise_time_group, fall_time_group,
          rise_response_time_group, fall_response_time_group, origin,
          stdout, frame, result>>

GroupNames == {"voltage_group", "rise_time_group", "fall_time_group",
               "rise_response_time_group", "fall_response_time_group"}

NoCall == [NoLocals EXCEPT !.exc = "nocall"]

\* Mutant of append: the entry is put at the front of the list.
append_front(st, name, value, k) ==
    [st EXCEPT !.lists[name] = <<value>> \o @,
               !.origin[name] = <<k>> \o @]

\* list.append(value), with the history of where the entry came from.
append(st, name, value, k) ==
    [st EXCEPT !.lists[name] = Append(@, value),
               !.origin[name] = Append(@, k)]

\* Lines 116-126, the body of the try statement for the file at position k
\* of the listing: the lists afterwards, the exception that left the body
\* ("none" when it ran to its end) and the frame of the main_analysis call.
\* Mutant of try_body_analysed: the rise time is appended whatever the
\* outcome of the analysis, as the voltage is.
try_body_analysed_early(st, k, outcome) ==
    IF outcome.exc # "none" THEN
        [st |-> append(st, "rise_time_group", outcome.CH2_rise_duration, k),
         exc |-> outcome.exc, msg |-> outcome.msg, frame |-> outcome]
    ELSE
        [st |-> append(append(append(append(st,
                    "rise_time_group", outcome.ret[1], k),
                    "fall_time_group", outcome.ret[2], k),
                    "rise_response_time_group", outcome.ret[3], k),
                    "fall_response_time_group", outcome.ret[4], k),
         exc |-> "none", msg |-> "", frame |-> outcome]

\* Mutant of try_body_analysed: the rise time of a record is counted on
\* from the records collected before it.
try_body_analysed_carried(st, k, outcome) ==
    IF outcome.exc # "none" THEN
        [st |-> st, exc |-> outcome.exc, msg |-> outcome.msg, frame |-> outcome]
    ELSE
        [st |-> append(append(append(append(st,
                    "rise_time_group",
                    RAdd(outcome.ret[1],
                         RInt(Len(st.lists["rise_time_group"]))), k),
                    "fall_time_group", outcome.ret[2], k),
                    "rise_response_time_group", outcome.ret[3], k),
                    "fall_response_time_group", outcome.ret[4], k),
         exc |-> "none", msg |-> "", frame |-> outcome]

try_body_analysed(st, k, outcome) ==
    IF outcome.exc # "none" THEN
        [st |-> st, exc |-> outcome.exc, msg |-> outcome.msg, frame |-> outcome]
    ELSE
        [st |-> append(append(append(append(st,
                    "rise_time_group", outcome.ret[1], k),
                    "fall_time_group", outcome.ret[2], k),
                    "rise_response_time_group", outcome.ret[3], k),
                    "fall_response_time_group", outcome.ret[4], k),
         exc |-> "none", msg |-> "", frame |-> outcome]

try_body(st, k, file) ==
    IF float_raises(label_of(file.file_name)) THEN
        [st |-> st, exc |-> "ValueError",
         msg |-> "could not convert string to float", frame |-> NoCall]
    ELSE
        try_body_analysed(
            append(st, "voltage_group", float(label_of(file.file_name)), k),
            k, main_analysis(file.data))

\* Mutant of caught: the except clause names IndexError.
caught_IndexError(exc) == exc = "IndexError"

\* Line 127: except ValueError.
caught(exc) == exc = "ValueError"

\* The lists and their history as try_body takes them.
Lists ==
    [lists |-> [voltage_group |-> voltage_group,
                rise_time_group |-> rise_time_group,
                fall_time_group |-> fall_time_group,
                rise_response_time_group |-> rise_response_time_group,
                fall_response_time_group |-> fall_response_time_group],
     origin |-> origin]

SetLists(st) ==
    /\ voltage_group' = st.lists.voltage_group
    /\ rise_time_group' = st.lists.rise_time_group
    /\ fall_time_group' = st.lists.fall_time_group
    /\ rise_response_time_group' = st.lists.rise_response_time_group
    /\ fall_response_time_group' = st.lists.fall_response_time_group
    /\ origin' = st.origin

\* np.array(list): the same entries in the same order.
np_array(list) == [p \in 1..Len(list) |-> list[p]]

NoResult == <<>>

(***************************************************************************)
(* State of the functions that are called on their own, outside a batch    *)
(* run; a batch run leaves it alone.                                       *)
(***************************************************************************)
VARIABLES
    fi,                       \* the frame of a call of find_intersection:
                              \* pc, the arguments x, y, level and the list
                              \* intersections
    lf,                       \* the level fit of lines 63-71 run on a channel:
                              \* pc, the sample times and the frame
    contexts,                 \* the temp_style contexts that are open, the
                              \* innermost last: the frame of each generator
    tmp_files,                \* the files in the directory of temporary files
    active_style,             \* the style last given to matplotlib.style.use
    created,                  \* how many temporary files have been created
    exits                     \* history: the frame of each context when the
                              \* with statement was done with it

styles == <<contexts, tmp_files, active_style, created, exits>>

standalone == <<fi, lf, styles>>

NoFindIntersection == [pc |-> "idle"]

NoLevelFit == [pc |-> "idle"]

\* What matplotlib.style.use was last given: the name of a style, or the
\* path of a style file.
Style(name) == [name |-> name, path |-> 0]
StyleFile(path) == [name |-> "", path |-> path]

NoStyles ==
    /\ contexts = <<>>
    /\ tmp_files = {}
    /\ active_style = Style("default")
    /\ created = 0
    /\ exits = <<>>

StandaloneIdle == fi = NoFindIntersection /\ lf = NoLevelFit /\ NoStyles

\* Lines 106-110.
InitLocals ==
    /\ i = 0
    /\ pc = "loop"
    /\ voltage_group = <<>>
    /\ rise_time_group = <<>>
    /\ fall_time_group = <<>>
    /\ rise_response_time_group = <<>>
    /\ fall_response_time_group = <<>>
    /\ origin = [name \in GroupNames |-> <<>>]
    /\ stdout = <<>>
    /\ frame = NoCall
    /\ result = NoResult

\* Lines 112-114: a name that does not end with ".csv" is passed over.
SkipFile ==
    /\ pc = "loop" /\ i < Len(listing)
    /\ ~endswith_csv(listing[i + 1].file_name)
    /\ i' = i + 1
    /\ UNCHANGED <<listing, pc, voltage_group, rise_time_group, fall_time_group,
                   rise_response_time_group, fall_response_time_group, origin,
                   stdout, frame, result>>
    /\ UNCHANGED standalone

\* Lines 115-126: the try body runs to its end.
IterateOk ==
    /\ pc = "loop" /\ i < Len(listing)
    /\ endswith_csv(listing[i + 1].file_name)
    /\ LET r == try_body(Lists, i + 1, listing[i + 1])
       IN /\ r.exc = "none"
          /\ SetLists(r.st)
          /\ frame' = r.frame
    /\ i' = i + 1
    /\ UNCHANGED <<listing, pc, stdout, result>>
    /\ UNCHANGED standalone

\* Lines 127-128: the try body raises an exception the except clause
\* catches; the message is printed and the loop goes on.
IterateCaught ==
    /\ pc = "loop" /\ i < Len(listing)
    /\ endswith_csv(listing[i + 1].file_name)
    /\ LET r == try_body(Lists, i + 1, listing[i + 1])
       IN /\ r.exc # "none" /\ caught(r.exc)
          /\ SetLists(r.st)
          /\ frame' = r.frame
          /\ stdout' = Append(stdout, [file_name |-> listing[i + 1].file_name,
                                       e |-> r.msg])
    /\ i' = i + 1
    /\ UNCHANGED <<listing, pc, result>>
    /\ UNCHANGED standalone

\* The try body raises an exception the except clause does not catch: it
\* leaves the loop and data_integration, which returns nothing.
IterateUncaught ==
    /\ pc = "loop" /\ i < Len(listing)
    /\ endswith_csv(listing[i + 1].file_name)
    /\ LET r == try_body(Lists, i + 1, listing[i + 1])
       IN /\ r.exc # "none" /\ ~caught(r.exc)
          /\ SetLists(r.st)
          /\ frame' = r.frame
    /\ i' = i + 1
    /\ pc' = "raised"
    /\ UNCHANGED <<listing, stdout, result>>
    /\ UNCHANGED standalone

\* Lines 129-134: the loop is over; the lists are returned as arrays.
Return ==
    /\ pc = "loop" /\ i = Len(listing)
    /\ pc' = "returned"
    /\ result' = <<np_array(voltage_group), np_array(rise_time_group),
                   np_array(fall_time_group),
                   np_array(rise_response_time_group),
                   np_array(fall_response_time_group)>>
    /\ UNCHANGED <<listing, i, voltage_group, rise_time_group, fall_time_group,
                   rise_response_time_group, fall_response_time_group, origin,
                   stdout, frame>>
    /\ UNCHANGED standalone

Next == SkipFile \/ IterateOk \/ IterateCaught \/ IterateUncaught \/ Return

(***************************************************************************)
(* The batch specification: directories of up to MaxFiles files with       *)
(* distinct names, the waveforms drawn from one of each kind of outcome.   *)
(***************************************************************************)
CsvName(l) == [last |-> l, ext |-> ".csv"]
TxtName(l) == [last |-> l, ext |-> ".txt"]

GoodWave == Wave(<<0, 0, 1, 1, 0>>, <<0, 0, 1, 1, 0>>)
ShortWave == Wave(<<0, 1, 1, 0>>, <<0, 1, 1, 0>>)
NoTriggerWave == Wave(<<0, 0, 0, 0, 0>>, <<0, 0, 1, 1, 0>>)
FlatWave == Wave(<<0, 0, 1, 1, 0>>, <<1, 1, 1, 1, 1>>)
DecayWave == Wave(<<0, 0, 1, 1, 0>>, <<0, 0, 1, 0, 0>>)

BatchWaveforms == {GoodWave, ShortWave, NoTriggerWave, FlatWave, DecayWave}

BatchFiles ==
    {[file_name |-> CsvName(l), data |-> d] :
        l \in {"1", "3", "5"}, d \in BatchWaveforms}
    \cup {[file_name |-> CsvName("x"), data |-> GoodWave],
          [file_name |-> TxtName("notes"), data |-> GoodWave]}

DistinctNames(s) ==
    \A p, q \in 1..Len(s) : p # q => s[p].file_name # s[q].file_name

Listings(files, n) ==
    UNION {{s \in [1..m -> files] : DistinctNames(s)} : m \in 0..n}

Init == listing \in Listings(BatchFiles, MaxFiles) /\ InitLocals /\ StandaloneIdle

Spec == Init /\ [][Next]_vars

(***************************************************************************)
(* The single-record specification: a directory of one file, its waveform  *)
(* drawn from all the waveforms within the bounds.                         *)
(***************************************************************************)
AnalysisFiles ==
    {[file_name |-> CsvName("5"), data |-> d] : d \in Waveforms}
    \cup {[file_name |-> CsvName("x"), data |-> GoodWave],
          [file_name |-> TxtName("notes"), data |-> GoodWave]}

InitAnalysis ==
    listing \in {<<f>> : f \in AnalysisFiles} /\ InitLocals /\ StandaloneIdle

SpecAnalysis == InitAnalysis /\ [][Next]_vars

(***************************************************************************)
(* find_intersection called on its own: sample times that start at 0 and   *)
(* increase by steps of 1 or 2, up to MaxSamples samples of 0, 1 or 2, and *)
(* a level on a sample value or between two.                               *)
(***************************************************************************)
Steps == {1, 2}

RECURSIVE SampleTimes(_)
SampleTimes(N) ==
    IF N = 0 THEN {<<>>}
    ELSE IF N = 1 THEN {<<0>>}
    ELSE {Append(x, x[N - 1] + s) : x \in SampleTimes(N - 1), s \in Steps}

Samples(N) == [1..N -> {0, 1, 2}]

Levels == {Rat(1, 2), RInt(1)}

FindIntersectionCalls ==
    UNION {{[pc |-> "called", x |-> x, y |-> Raw(y), level |-> level,
             intersections |-> <<>>] :
               x \in SampleTimes(N), y \in Samples(N), level \in Levels} :
           N \in 0..MaxSamples}

InitIntersection ==
    /\ fi \in FindIntersectionCalls
    /\ lf = NoLevelFit
    /\ NoStyles
    /\ listing = <<>>
    /\ InitLocals

\* Lines 26-35: the call runs and returns the list.
FindIntersection ==
    /\ fi.pc = "called"
    /\ fi' = [fi EXCEPT !.pc = "returned",
                        !.intersections = find_intersection(fi.x, fi.y, fi.level)]
    /\ UNCHANGED <<vars, lf, styles>>

NextIntersection == FindIntersection

SpecIntersection == InitIntersection /\ [][NextIntersection]_<<vars, standalone>>

(***************************************************************************)
(* The level fit of lines 63-71 run on its own, on a channel of up to      *)
(* MaxSamples samples of 0, 1, 2 or 3 at the sample times 0, 1, ...        *)
(***************************************************************************)
LevelSamples(N) == [1..N -> {0, 1, 2, 3}]

LevelFitCalls ==
    UNION {{[pc |-> "called",
             data |-> Wave(ch, ch),
             frame |-> [NoLocals EXCEPT !.CH2 = Raw(ch)]] :
               ch \in LevelSamples(N)} :
           N \in 1..MaxLevelSamples}

InitLevelFit ==
    /\ lf \in LevelFitCalls
    /\ fi = NoFindIntersection
    /\ NoStyles
    /\ listing = <<>>
    /\ InitLocals

\* Lines 63-71: the two partitions are made and fitted, or curve_fit raises.
FitLevels ==
    /\ lf.pc = "called"
    /\ lf' = [lf EXCEPT !.pc = "returned",
                        !.frame = fit_low(fit_high(lf.frame, lf.data), lf.data)]
    /\ UNCHANGED <<vars, fi, styles>>

\* Lines 72-89 on the fitted channel: the scans across the high level and
\* the crossings of the low level, up to the first statement that raises.
ScanResponse ==
    /\ lf.pc = "returned"
    /\ lf' = [lf EXCEPT
                !.pc = "scanned",
                !.frame = rise_end(crossing_times(low_crossings(
                              fall_start(lf.frame, lf.data),
                              lf.data), lf.data), lf.data)]
    /\ UNCHANGED <<vars, fi, styles>>

NextLevelFit == FitLevels \/ ScanResponse

SpecLevelFit == InitLevelFit /\ [][NextLevelFit]_<<vars, standalone>>

(***************************************************************************)
(* temp_style(style_keys, extra_style), ysy_plot_utils.py lines 508-563: a *)
(* generator wrapped by contextlib.contextmanager.  A with statement runs  *)
(* it up to its yield, then runs the body of the with statement, then      *)
(* resumes it; an exception of the body is raised at the yield.  The body  *)
(* may open further contexts.  PRESET_STYLES holds ysy_academic and sky    *)
(* (lines 966, 1015) and no key nokey.  An extra_style that the style      *)
(* reader cannot decode makes matplotlib.style.use raise.                  *)
(***************************************************************************)
PRESET_STYLES == {"ysy_academic", "sky"}

StyleKeys == {<<>>, <<"ysy_academic", "sky">>, <<"nokey">>, <<"sky", "nokey">>}

ExtraStyles == {"", "undecodable"}

InitialStyles == {Style("default"), Style("ysy_settings")}

use_raises(content) == content.extra_style = "undecodable"

\* Lines 546-551: the first key of style_keys that is not in PRESET_STYLES.
UnknownKeys(style_keys) ==
    {k \in 1..Len(style_keys) : style_keys[k] \notin PRESET_STYLES}

Top == contexts[Len(contexts)]

SetTop(f) == contexts' = [contexts EXCEPT ![Len(contexts)] = f]

AtPc(pc_value) == contexts # <<>> /\ Top.pc = pc_value

\* The with statement calls temp_style; the generator has not run yet.
\* style_before and created_before are history: the style and the number
\* of temporary files when the with statement began.
With ==
    /\ Len(contexts) + Len(exits) < MaxContexts
    /\ IF contexts = <<>> THEN TRUE ELSE Top.pc = "body"
    /\ \E style_keys \in StyleKeys, extra_style \in ExtraStyles :
          contexts' = Append(contexts,
              [pc |-> "start", style_keys |-> style_keys,
               extra_style |-> extra_style,
               combined_style |-> [snippets |-> <<>>, extra_style |-> ""],
               tmp_path |-> 0, exc |-> "none", entered |-> FALSE,
               style_before |-> active_style, created_before |-> created])
    /\ UNCHANGED <<tmp_files, active_style, created, exits>>
    /\ UNCHANGED <<vars, fi, lf>>

\* Mutant of Compose: a key that is not in PRESET_STYLES is passed over.
Compose_lenient ==
    /\ AtPc("start")
    /\ SetTop([Top EXCEPT
          !.pc = "composed",
          !.combined_style =
              [snippets |-> SelectSeq(Top.style_keys,
                                      LAMBDA k : k \in PRESET_STYLES),
               extra_style |-> Top.extra_style]])
    /\ UNCHANGED <<tmp_files, active_style, created, exits>>
    /\ UNCHANGED <<vars, fi, lf>>

\* Lines 544-551: the style is put together from the presets, or the first
\* unknown key raises ValueError, which leaves the generator and the with
\* statement.
Compose ==
    /\ AtPc("start")
    /\ IF UnknownKeys(Top.style_keys) # {}
       THEN SetTop([Top EXCEPT !.pc = "exit", !.exc = "ValueError"])
       ELSE SetTop([Top EXCEPT
               !.pc = "composed",
               !.combined_style = [snippets |-> Top.style_keys,
                                   extra_style |-> Top.extra_style]])
    /\ UNCHANGED <<tmp_files, active_style, created, exits>>
    /\ UNCHANGED <<vars, fi, lf>>

\* Lines 553-555: a new temporary file, kept when it is closed.
CreateTempFile ==
    /\ AtPc("composed")
    /\ created' = created + 1
    /\ tmp_files' = tmp_files \cup
          {[path |-> created + 1, content |-> Top.combined_style]}
    /\ SetTop([Top EXCEPT !.pc = "written", !.tmp_path = created + 1])
    /\ UNCHANGED <<active_style, exits>>
    /\ UNCHANGED <<vars, fi, lf>>

\* Lines 557-559: the style of the file is applied and the generator
\* yields: the body of the with statement is entered.  When use raises,
\* the finally clause is next.
UseStyle ==
    /\ AtPc("written")
    /\ IF use_raises(Top.combined_style)
       THEN /\ SetTop([Top EXCEPT !.pc = "finally", !.exc = "UnicodeDecodeError"])
            /\ UNCHANGED active_style
       ELSE /\ SetTop([Top EXCEPT !.pc = "body", !.entered = TRUE])
            /\ active_style' = StyleFile(Top.tmp_path)
    /\ UNCHANGED <<tmp_files, created, exits>>
    /\ UNCHANGED <<vars, fi, lf>>

\* The body of the with statement runs to its end.
BodyCompletes ==
    /\ AtPc("body")
    /\ SetTop([Top EXCEPT !.pc = "finally"])
    /\ UNCHANGED <<tmp_files, active_style, created, exits>>
    /\ UNCHANGED <<vars, fi, lf>>

\* The body of the with statement raises; the exception is raised in the
\* generator at its yield.
BodyRaises ==
    /\ AtPc("body")
    /\ SetTop([Top EXCEPT !.pc = "finally", !.exc = "BodyError"])
    /\ UNCHANGED <<tmp_files, active_style, created, exits>>
    /\ UNCHANGED <<vars, fi, lf>>

\* Mutant of Finally: the clean-up follows the yield without a try
\* statement, so that an exception passes it by.
Finally_unless_raised ==
    /\ AtPc("finally")
    /\ IF Top.exc = "none"
       THEN /\ active_style' = Style("default")
            /\ tmp_files' = {f \in tmp_files : f.path # Top.tmp_path}
       ELSE UNCHANGED <<active_style, tmp_files>>
    /\ SetTop([Top EXCEPT !.pc = "exit"])
    /\ UNCHANGED <<created, exits>>
    /\ UNCHANGED <<vars, fi, lf>>

\* Lines 560-563, the finally clause: the style library is reloaded, the
\* default style applied and the temporary file removed.
Finally ==
    /\ AtPc("finally")
    /\ active_style' = Style("default")
    /\ tmp_files' = {f \in tmp_files : f.path # Top.tmp_path}
    /\ SetTop([Top EXCEPT !.pc = "exit"])
    /\ UNCHANGED <<created, exits>>
    /\ UNCHANGED <<vars, fi, lf>>

\* The with statement is done with the context: the generator has ended or
\* raised.  The frame is kept in exits with the style and the number of
\* temporary files at this moment.
ExitWith ==
    /\ AtPc("exit")
    /\ exits' = Append(exits,
          [frame |-> Top, style_after |-> active_style,
           created_after |-> created,
           file_left |-> \E f \in tmp_files : f.path = Top.tmp_path])
    /\ contexts' = SubSeq(contexts, 1, Len(contexts) - 1)
    /\ UNCHANGED <<tmp_files, active_style, created>>
    /\ UNCHANGED <<vars, fi, lf>>

NextStyle ==
    \/ With \/ Compose \/ CreateTempFile \/ UseStyle
    \/ BodyCompletes \/ BodyRaises \/ Finally \/ ExitWith

InitStyle ==
    /\ contexts = <<>>
    /\ tmp_files = {}
    /\ active_style \in InitialStyles
    /\ created = 0
    /\ exits = <<>>
    /\ fi = NoFindIntersection
    /\ lf = NoLevelFit
    /\ listing = <<>>
    /\ InitLocals

SpecStyle == InitStyle /\ [][NextStyle]_<<vars, standalone>>

(***************************************************************************)
(* Vocabulary of the claims.                                               *)
(***************************************************************************)
\* The failure kind of a call that raised, by the statement that raised.
FailureKind(f) ==
    CASE f.at = "savgol_filter" -> "InsufficientSamples"
      [] f.at \in {"CH1_left_index", "CH1_right_index",
                   "CH2_fall_start_index", "CH2_rise_end_index"} -> "NoEdgeFound"
      [] f.at \in {"popt_high", "popt_low"} -> "EmptyLevelPartition"
      [] f.at = "low_intersections" -> "AmbiguousLowCrossings"
      [] OTHER -> "none"

FailureKinds == {"InsufficientSamples", "NoEdgeFound", "EmptyLevelPartition",
                 "AmbiguousLowCrossings"}

\* The records of a batch: the CSV files whose label is a number.
Records ==
    {p \in 1..Len(listing) :
        /\ endswith_csv(listing[p].file_name)
        /\ ~float_raises(label_of(listing[p].file_name))}

Analysis(p) == main_analysis(listing[p].data)
Succeeded == {p \in Records : Analysis(p).exc = "none"}
Failed == {p \in Records : Analysis(p).exc # "none"}

\* The position in the returned tuple of each list, and the entry a
\* successful record contributes to it.
ResultIndex(name) ==
    CASE name = "voltage_group" -> 1
      [] name = "rise_time_group" -> 2
      [] name = "fall_time_group" -> 3
      [] name = "rise_response_time_group" -> 4
      [] name = "fall_response_time_group" -> 5

EntryOf(name, p) ==
    IF name = "voltage_group" THEN float(label_of(listing[p].file_name))
    ELSE Analysis(p).ret[ResultIndex(name) - 1]

(***************************************************************************)
(* C1.  A record whose analysis fails with any of the four failure kinds   *)
(* never aborts the batch run: data_integration does not raise.            *)
(* Stated as the claim; the code violates it (IndexError is not caught).   *)
(***************************************************************************)
C1_BatchNeverAborts ==
    ~(pc = "raised" /\ FailureKind(frame) \in FailureKinds)

(***************************************************************************)
(* C2.  After a batch run the five returned arrays have the same length    *)
(* and entry q of every array comes from the same successfully analysed    *)
(* record.  Stated as the claim; the code violates it (the voltage is      *)
(* appended before the analysis that may fail).                            *)
(***************************************************************************)
C2_ArraysAligned ==
    pc = "returned" =>
        \A name \in GroupNames :
            /\ Len(result[ResultIndex(name)]) = Len(result[1])
            /\ origin[name] = origin["voltage_group"]
            /\ \A q \in 1..Len(origin[name]) : origin[name][q] \in Succeeded

(***************************************************************************)
(* C3.  Of n records of which k fail analysis, the returned arrays have    *)
(* n - k entries each and the skip channel (what the run printed) has one  *)
(* entry per failed record, with its name and its failure.  Stated as the  *)
(* claim; the code violates it.                                            *)
(***************************************************************************)
C3_DatasetAndSkipList ==
    pc = "returned" =>
        /\ \A name \in GroupNames :
              Len(result[ResultIndex(name)])
                  = Cardinality(Records) - Cardinality(Failed)
        /\ \A p \in Failed :
              Cardinality({q \in 1..Len(stdout) :
                  stdout[q] = [file_name |-> listing[p].file_name,
                               e |-> Analysis(p).msg]}) = 1
        /\ \A p \in Succeeded :
              \A q \in 1..Len(stdout) :
                  stdout[q].file_name # listing[p].file_name

(***************************************************************************)
(* C4.  The returned arrays list the successfully analysed records in the  *)
(* order in which the files were iterated, unsorted: if record a is        *)
(* iterated before record b and both succeed, the entry of a precedes the  *)
(* entry of b in every returned array.                                     *)
(***************************************************************************)
C4_InputOrder ==
    pc = "returned" =>
        \A name \in GroupNames : \A a, b \in Succeeded :
            a < b =>
                \E qa, qb \in 1..Len(result[ResultIndex(name)]) :
                    /\ qa < qb
                    /\ origin[name][qa] = a
                    /\ origin[name][qb] = b
                    /\ result[ResultIndex(name)][qa] = EntryOf(name, a)
                    /\ result[ResultIndex(name)][qb] = EntryOf(name, b)

\* Witness: the files labelled 5, 1, 3, iterated in that order, all
\* analysed with success, give the voltages 5, 1, 3.
C4_Witness ==
    /\ pc = "returned"
    /\ Succeeded = {1, 2, 3}
    /\ result[1] = <<5, 1, 3>>
    /\ Len(result[2]) = 3

(***************************************************************************)
(* The call that the variable frame holds: main_analysis was called for    *)
(* the last record iterated, on the data of its file.                      *)
(***************************************************************************)
Called == frame.exc # "nocall"

LastRecord ==
    CHOOSE p \in Records : p <= i /\ \A q \in Records : q <= i => q <= p

CalledData == listing[LastRecord].data

\* The call got as far as counting the low-level intersections (line 79).
Counted == Called /\ frame.at \in {"low_intersections", "CH2_rise_end_index", "return"}

\* The call bound the two crossing times (lines 80-81).
CrossingTimesBound == Called /\ frame.at \in {"CH2_rise_end_index", "return"}

(***************************************************************************)
(* C5, as the claim states it.  The analysis succeeds only when exactly    *)
(* two low-level crossings are found; with any other count (0, 1, 3 or     *)
(* more) it fails with AmbiguousLowCrossings and returns no metrics.       *)
(* The code violates it: line 79 tests len(low_intersections) >= 2.        *)
(***************************************************************************)
C5_ExactlyTwo ==
    Counted =>
        /\ frame.exc = "none" => Len(frame.low_intersections) = 2
        /\ Len(frame.low_intersections) # 2 =>
              /\ FailureKind(frame) = "AmbiguousLowCrossings"
              /\ frame.ret = <<>>

(***************************************************************************)
(* C5, amended.  The analysis succeeds only when at least two low-level    *)
(* crossings are found; it fails with AmbiguousLowCrossings (a ValueError) *)
(* exactly when fewer than two are found (0 or 1), and then returns no     *)
(* metrics; with three or more the first two are used.                     *)
(***************************************************************************)
C5_AtLeastTwo ==
    Counted =>
        /\ frame.exc = "none" => Len(frame.low_intersections) >= 2
        /\ Len(frame.low_intersections) < 2 <=>
              FailureKind(frame) = "AmbiguousLowCrossings"
        /\ FailureKind(frame) = "AmbiguousLowCrossings" =>
              /\ frame.exc = "ValueError"
              /\ frame.ret = <<>>
        /\ Len(frame.low_intersections) >= 2 =>
              {frame.CH2_rise_start_time, frame.CH2_fall_end_time}
                  = {frame.low_intersections[1], frame.low_intersections[2]}

\* Witness: a record with three or more low-level crossings is analysed
\* with success.
C5_Witness ==
    /\ Called
    /\ frame.exc = "none"
    /\ Len(frame.low_intersections) >= 3
    /\ Len(frame.ret) = 4

(***************************************************************************)
(* C6.  The analysis of one record ends in exactly one of two outcomes: it *)
(* returns four values, every one of them a number, or it raises one of    *)
(* the four failures and returns nothing: InsufficientSamples when a       *)
(* column is shorter than the smoothing window, NoEdgeFound when a scan    *)
(* for a pair of samples across a threshold finds none, EmptyLevelPartition*)
(* when no sample lies above or none below the midpoint of the response,   *)
(* AmbiguousLowCrossings when fewer than two low-level crossings are       *)
(* found.  No other exception leaves the call and no failed call returns   *)
(* a value.                                                                *)
(***************************************************************************)
C6_TerminalOutcome ==
    Called =>
        \/ /\ frame.exc = "none"
           /\ frame.at = "return"
           /\ Len(frame.ret) = 4
           /\ \A q \in 1..4 : frame.ret[q] # Unbound /\ frame.ret[q].d > 0
           /\ Len(CalledData.CH2) >= window_length
           /\ high_indices(frame.CH2) # {} /\ low_indices(frame.CH2) # {}
           /\ Len(frame.low_intersections) >= 2
        \/ /\ frame.exc \in {"ValueError", "IndexError"}
           /\ frame.ret = <<>>
           /\ FailureKind(frame) \in FailureKinds
           /\ FailureKind(frame) = "InsufficientSamples" <=>
                 Len(CalledData.CH2) < window_length
           /\ FailureKind(frame) = "InsufficientSamples" =>
                 frame.exc = "ValueError" /\ frame.CH2 = <<>>
           /\ FailureKind(frame) = "NoEdgeFound" =>
                 /\ frame.exc = "IndexError"
                 /\ \/ rising_pairs(frame.CH1, midpoint(frame.CH1)) = {}
                    \/ falling_pairs(frame.CH1, midpoint(frame.CH1)) = {}
                    \/ falling_pairs(frame.CH2, frame.CH2_high_level) = {}
                    \/ rising_pairs(frame.CH2, frame.CH2_high_level) = {}
           /\ FailureKind(frame) = "EmptyLevelPartition" =>
                 /\ frame.exc = "ValueError"
                 /\ high_indices(frame.CH2) = {} \/ low_indices(frame.CH2) = {}
           /\ FailureKind(frame) = "AmbiguousLowCrossings" =>
                 /\ frame.exc = "ValueError"
                 /\ Len(frame.low_intersections) < 2

\* Witness: a call that had bound both levels, the fall start and the two
\* crossing times when the scan for the rise end found no pair; it raised
\* and returned nothing.
C6_Witness ==
    /\ Called
    /\ frame.at = "CH2_rise_end_index"
    /\ frame.exc = "IndexError"
    /\ frame.CH2_fall_duration # Unbound
    /\ frame.ret = <<>>

(***************************************************************************)
(* C8, as the claim states it.  Of the low-level crossings of the response *)
(* channel the first (earlier) one is used as the fall end time and the    *)
(* second (later) one as the rise start time.  The code violates it:       *)
(* lines 80-81 bind the first to CH2_rise_start_time and the second to     *)
(* CH2_fall_end_time, against the comments on those two lines.             *)
(***************************************************************************)
C8_FirstIsFallEnd ==
    CrossingTimesBound =>
        /\ frame.CH2_fall_end_time = frame.low_intersections[1]
        /\ frame.CH2_rise_start_time = frame.low_intersections[2]

(***************************************************************************)
(* C9.  On success the returned tuple is (rise duration, fall duration,    *)
(* rise response delay, fall response delay), in this order, where         *)
(*   fall duration = fall end time - fall start time,                      *)
(*   rise duration = rise end time - rise start time,                      *)
(*   rise response delay = rise start time - time of the rising edge of    *)
(*                         the trigger,                                    *)
(*   fall response delay = fall start time - time of the falling edge of   *)
(*                         the trigger,                                    *)
(* the rise end and the fall start being the times of the first pairs of   *)
(* the smoothed response across the high level, and the trigger edges the  *)
(* times of the first pairs of the smoothed trigger across its midpoint.   *)
(***************************************************************************)
C9_MetricsAndOrder ==
    (Called /\ frame.exc = "none") =>
        LET CH1 == savgol_filter(CalledData.CH1)
            CH2 == savgol_filter(CalledData.CH2)
            Time == CalledData.Time
            trigger_rise_time ==
                RInt(Time[First(rising_pairs(CH1, midpoint(CH1)))])
            trigger_fall_time ==
                RInt(Time[First(falling_pairs(CH1, midpoint(CH1)))])
            rise_end_time ==
                RInt(Time[First(rising_pairs(CH2, frame.CH2_high_level))])
            fall_start_time ==
                RInt(Time[First(falling_pairs(CH2, frame.CH2_high_level))])
        IN frame.ret =
              <<RSub(rise_end_time, frame.CH2_rise_start_time),
                RSub(frame.CH2_fall_end_time, fall_start_time),
                RSub(frame.CH2_rise_start_time, trigger_rise_time),
                RSub(fall_start_time, trigger_fall_time)>>

\* Witness: a successful call whose four metrics are four different numbers.
C9_Witness ==
    /\ Called
    /\ frame.exc = "none"
    /\ Len(frame.ret) = 4
    /\ Cardinality({frame.ret[q] : q \in 1..4}) = 4

(***************************************************************************)
(* C10, as the claim states it.  The low-level crossings are computed on   *)
(* the raw, unsmoothed response channel, while the trigger edges, the      *)
(* level fit and the high-level scans use the smoothed channels.  The code *)
(* violates it: line 77 hands the smoothed CH2 to find_intersection.       *)
(***************************************************************************)
C10_RawCrossings ==
    Counted =>
        /\ frame.CH1 = savgol_filter(CalledData.CH1)
        /\ frame.CH2 = savgol_filter(CalledData.CH2)
        /\ frame.low_intersections =
              find_intersection(CalledData.Time, Raw(CalledData.CH2),
                                frame.CH2_low_level)

(***************************************************************************)
(* C10, amended.  The low-level crossings are computed on the smoothed     *)
(* response channel, as are the level fit and the high-level scans; the    *)
(* trigger edges are found on the smoothed trigger channel.  The raw       *)
(* columns are read by the smoothing alone.                                *)
(***************************************************************************)
C10_SmoothedCrossings ==
    Counted =>
        LET CH1 == savgol_filter(CalledData.CH1)
            CH2 == savgol_filter(CalledData.CH2)
            Time == CalledData.Time
        IN /\ frame.CH1 = CH1
           /\ frame.CH2 = CH2
           /\ frame.CH1_left_time =
                 RInt(Time[First(rising_pairs(CH1, midpoint(CH1)))])
           /\ frame.CH1_right_time =
                 RInt(Time[First(falling_pairs(CH1, midpoint(CH1)))])
           /\ frame.CH2_high_level =
                 curve_fit(Take(Time, high_indices(CH2), 1),
                           Take(CH2, high_indices(CH2), 1))
           /\ frame.CH2_low_level =
                 curve_fit(Take(Time, low_indices(CH2), 1),
                           Take(CH2, low_indices(CH2), 1))
           /\ frame.CH2_fall_start_time =
                 RInt(Time[First(falling_pairs(CH2, frame.CH2_high_level))])
           /\ frame.low_intersections =
                 find_intersection(Time, CH2, frame.CH2_low_level)
           /\ frame.exc = "none" =>
                 frame.CH2_rise_end_time =
                     RInt(Time[First(rising_pairs(CH2, frame.CH2_high_level))])

\* Witness: a successful call on a record whose raw response crosses the
\* low level at other times than its smoothed response does.
C10_Witness ==
    /\ Called
    /\ frame.exc = "none"
    /\ Len(frame.low_intersections) >= 2
    /\ find_intersection(CalledData.Time, Raw(CalledData.CH2),
                         frame.CH2_low_level) # frame.low_intersections

(***************************************************************************)
(* Edge scans, in the words of the claims: the comparator of a direction   *)
(* on the pair (p, p + 1) of a channel, and the first pair that satisfies  *)
(* it.                                                                     *)
(***************************************************************************)
Comparator(ch, level, direction, p) ==
    IF direction = "rising"
    THEN RLt(ch[p], level) /\ RGt(ch[p + 1], level)
    ELSE RGt(ch[p], level) /\ RLt(ch[p + 1], level)

IsFirstPair(ch, level, direction, p) ==
    /\ p \in 1..(Len(ch) - 1)
    /\ Comparator(ch, level, direction, p)
    /\ \A q \in 1..(p - 1) : ~Comparator(ch, level, direction, q)

\* The call found both trigger edges (lines 59-62).
TriggerEdgesBound ==
    Called /\ frame.at \notin {"savgol_filter", "CH1_left_index", "CH1_right_index"}

(***************************************************************************)
(* C11, as the claim states it.  The edge time reported is the time of the *)
(* later sample (p + 1) of the first pair that satisfies the comparator,   *)
(* for rising and for falling.  The code violates it: lines 61-62 read     *)
(* time[index] with index the earlier sample of the pair.                  *)
(***************************************************************************)
C11_LaterSample ==
    TriggerEdgesBound =>
        /\ \E p \in 1..(Len(frame.CH1) - 1) :
              /\ IsFirstPair(frame.CH1, midpoint(frame.CH1), "rising", p)
              /\ frame.CH1_left_time = RInt(CalledData.Time[p + 1])
        /\ \E p \in 1..(Len(frame.CH1) - 1) :
              /\ IsFirstPair(frame.CH1, midpoint(frame.CH1), "falling", p)
              /\ frame.CH1_right_time = RInt(CalledData.Time[p + 1])

(***************************************************************************)
(* C11, amended.  The edge time reported is the time of the earlier sample *)
(* (p) of the first pair that satisfies the comparator, for rising and for *)
(* falling, on the trigger and on the response: the sample at the reported *)
(* time is still on the old side of the threshold and the next sample is   *)
(* the first on the new side.                                              *)
(***************************************************************************)
C11_EarlierSample ==
    /\ TriggerEdgesBound =>
          /\ \E p \in 1..(Len(frame.CH1) - 1) :
                /\ IsFirstPair(frame.CH1, midpoint(frame.CH1), "rising", p)
                /\ frame.CH1_left_time = RInt(CalledData.Time[p])
          /\ \E p \in 1..(Len(frame.CH1) - 1) :
                /\ IsFirstPair(frame.CH1, midpoint(frame.CH1), "falling", p)
                /\ frame.CH1_right_time = RInt(CalledData.Time[p])
    /\ Counted =>
          \E p \in 1..(Len(frame.CH2) - 1) :
              /\ IsFirstPair(frame.CH2, frame.CH2_high_level, "falling", p)
              /\ frame.CH2_fall_start_time = RInt(CalledData.Time[p])
    /\ (Called /\ frame.exc = "none") =>
          \E p \in 1..(Len(frame.CH2) - 1) :
              /\ IsFirstPair(frame.CH2, frame.CH2_high_level, "rising", p)
              /\ frame.CH2_rise_end_time = RInt(CalledData.Time[p])

\* Witness: a call that found the rising edge of the trigger before its
\* falling edge, neither of them at the first sample.
C11_Witness ==
    /\ TriggerEdgesBound
    /\ RLt(RInt(0), frame.CH1_left_time)
    /\ RLt(frame.CH1_left_time, frame.CH1_right_time)

(***************************************************************************)
(* C12.  The threshold of the trigger scan is (max + min) / 2 over the     *)
(* whole smoothed channel; the rising edge is the lowest position p with   *)
(* sample p strictly below and sample p + 1 strictly above the threshold,  *)
(* the falling edge the lowest p with sample p strictly above and sample   *)
(* p + 1 strictly below; a pair with a sample equal to the threshold is    *)
(* never the one selected.                                                 *)
(***************************************************************************)
IsThreshold(ch, th) ==
    \E hi, lo \in 1..Len(ch) :
        /\ \A q \in 1..Len(ch) : RLe(ch[q], ch[hi]) /\ RLe(ch[lo], ch[q])
        /\ th = RDiv(RAdd(ch[hi], ch[lo]), RInt(2))

SelectedStrictly(ch, th, direction, time) ==
    \E p \in 1..(Len(ch) - 1) :
        /\ time = RInt(CalledData.Time[p])
        /\ ch[p] # th /\ ch[p + 1] # th
        /\ IF direction = "rising"
           THEN RLt(ch[p], th) /\ RLt(th, ch[p + 1])
           ELSE RLt(th, ch[p]) /\ RLt(ch[p + 1], th)
        /\ \A q \in 1..(p - 1) :
              IF direction = "rising"
              THEN ~(RLt(ch[q], th) /\ RLt(th, ch[q + 1]))
              ELSE ~(RLt(th, ch[q]) /\ RLt(ch[q + 1], th))

NoneStrictly(ch, th, direction) ==
    \A p \in 1..(Len(ch) - 1) :
        IF direction = "rising"
        THEN ~(RLt(ch[p], th) /\ RLt(th, ch[p + 1]))
        ELSE ~(RLt(th, ch[p]) /\ RLt(ch[p + 1], th))

C12_StrictMidpointScan ==
    /\ TriggerEdgesBound =>
          \E th \in {midpoint(frame.CH1)} :
              /\ IsThreshold(frame.CH1, th)
              /\ SelectedStrictly(frame.CH1, th, "rising", frame.CH1_left_time)
              /\ SelectedStrictly(frame.CH1, th, "falling", frame.CH1_right_time)
    /\ (Called /\ frame.at = "CH1_left_index") =>
          NoneStrictly(frame.CH1, midpoint(frame.CH1), "rising")
    /\ (Called /\ frame.at = "CH1_right_index") =>
          NoneStrictly(frame.CH1, midpoint(frame.CH1), "falling")

\* Witness: the smoothed trigger goes from below the threshold to exactly
\* the threshold and on to above it; neither pair is selected, and as no
\* other pair rises through the threshold the scan finds no rising edge.
C12_Witness ==
    /\ Called
    /\ frame.at = "CH1_left_index"
    /\ \E q \in 1..(Len(frame.CH1) - 2) :
          /\ RLt(frame.CH1[q], midpoint(frame.CH1))
          /\ frame.CH1[q + 1] = midpoint(frame.CH1)
          /\ RGt(frame.CH1[q + 2], midpoint(frame.CH1))

(***************************************************************************)
(* find_intersection, in the words of the claims: the pairs of the call    *)
(* whose two samples lie strictly on opposite sides of the level, and the  *)
(* rank of such a pair among them.                                         *)
(***************************************************************************)
Returned == fi.pc = "returned"

OppositeSigns(p) ==
    RLt(RMul(RSub(fi.y[p], fi.level), RSub(fi.y[p + 1], fi.level)), RInt(0))

Pairs == 1..(Len(fi.y) - 1)

CrossingPairs == {p \in Pairs : OppositeSigns(p)}

Rank(p) == Cardinality({q \in CrossingPairs : q <= p})

(***************************************************************************)
(* C13.  find_intersection returns exactly one time for each pair          *)
(* (p, p + 1) whose samples lie strictly on opposite sides of the level,   *)
(* and none for any other pair; the time t of pair p is the linear         *)
(* interpolation x[p] + (level - y[p]) / (y[p+1] - y[p]) * (x[p+1] - x[p]),*)
(* that is (t - x[p]) * (y[p+1] - y[p]) = (level - y[p]) * (x[p+1] - x[p]).*)
(***************************************************************************)
C13_OnePerOppositePair ==
    Returned =>
        /\ Len(fi.intersections) = Cardinality(CrossingPairs)
        /\ \A p \in CrossingPairs :
              LET t == fi.intersections[Rank(p)]
              IN /\ t.d > 0
                 /\ RMul(RSub(t, RInt(fi.x[p])), RSub(fi.y[p + 1], fi.y[p]))
                       = RMul(RSub(fi.level, fi.y[p]),
                              RInt(fi.x[p + 1] - fi.x[p]))

\* Witness: a call that returned two or more crossings, one of them from a
\* pair of samples two time units apart, on a channel that has a sample on
\* the level.
C13_Witness ==
    /\ Returned
    /\ Len(fi.intersections) >= 2
    /\ \E p \in CrossingPairs : fi.x[p + 1] - fi.x[p] = 2
    /\ \E p \in Pairs : fi.y[p] = fi.level

C15_NoZeroDenominator ==
    Returned =>
        /\ \A k \in 1..Len(fi.intersections) : fi.intersections[k].d > 0
        /\ \A p \in Pairs :
              fi.y[p + 1] = fi.y[p] =>
                  \A k \in 1..Len(fi.intersections) :
                      \/ RLt(fi.intersections[k], RInt(fi.x[p]))
                      \/ RLt(RInt(fi.x[p + 1]), fi.intersections[k])

\* Witness: a call on a channel with two consecutive samples equal to the
\* level, which returned a crossing from another pair.
C15_Witness ==
    /\ Returned
    /\ Len(fi.intersections) >= 1
    /\ \E p \in Pairs : fi.y[p] = fi.level /\ fi.y[p + 1] = fi.level

(***************************************************************************)
(* C16.  The level fit splits the samples of the channel by the channel's  *)
(* own midpoint (max + min) / 2 into those strictly above and those        *)
(* strictly below, a sample on the midpoint being in neither set, and      *)
(* returns as high level and low level the mean of each set; when a set is *)
(* empty the fit raises instead.  For a channel of two constant regimes    *)
(* the two levels are exactly the two constants.                           *)
(***************************************************************************)
Fitted == lf.pc = "returned"

Above(ch, th) == {p \in 1..Len(ch) : RLt(th, ch[p])}
Below(ch, th) == {p \in 1..Len(ch) : RLt(ch[p], th)}

IsMean(level, ch, S) ==
    RMul(level, RInt(Cardinality(S))) = RSum(Take(ch, S, 1))

C16_LevelsAreMeans ==
    Fitted =>
        LET ch == lf.frame.CH2 IN
        \E th \in {RDiv(RAdd(np_max(ch), np_min(ch)), RInt(2))} :
            /\ IsThreshold(ch, th)
            /\ (Above(ch, th) = {} \/ Below(ch, th) = {}) <=>
                  lf.frame.exc = "ValueError"
            /\ lf.frame.exc \in {"none", "ValueError"}
            /\ lf.frame.exc = "none" =>
                  /\ IsMean(lf.frame.CH2_high_level, ch, Above(ch, th))
                  /\ IsMean(lf.frame.CH2_low_level, ch, Below(ch, th))
                  /\ Cardinality({ch[p] : p \in 1..Len(ch)}) = 2 =>
                        /\ lf.frame.CH2_high_level = np_max(ch)
                        /\ lf.frame.CH2_low_level = np_min(ch)

\* Witness: a channel of two constant regimes, several samples in each, is
\* fitted and the levels are the two constants.
C16_Witness ==
    /\ Fitted
    /\ lf.frame.exc = "none"
    /\ Cardinality({lf.frame.CH2[p] : p \in 1..Len(lf.frame.CH2)}) = 2
    /\ Cardinality(Above(lf.frame.CH2, lf.frame.CH2_low_level)) >= 2
    /\ Cardinality(Below(lf.frame.CH2, lf.frame.CH2_high_level)) >= 2
    /\ lf.frame.CH2_high_level = RInt(3)
    /\ lf.frame.CH2_low_level = RInt(1)

(***************************************************************************)
(* C17, as the claim states it.  Each record is analysed independently of  *)
(* the others, so that the batch result is the collection, in input order, *)
(* of the results of the per-record analyses, whatever the order in which  *)
(* they are run: every returned array holds, for the successfully analysed *)
(* records in listing order, the entry of that record, the arrays being    *)
(* index-aligned.  The loop of data_integration, which runs the analyses   *)
(* one after the other, is one such order, and it violates the statement:  *)
(* its body appends the voltage to a list shared by all records before     *)
(* the analysis that may fail.                                             *)
(***************************************************************************)
RECURSIVE CollectedFrom(_, _)
CollectedFrom(name, p) ==
    IF p > Len(listing) THEN <<>>
    ELSE (IF p \in Succeeded THEN <<EntryOf(name, p)>> ELSE <<>>)
         \o CollectedFrom(name, p + 1)

C17_OrderedCollection ==
    pc = "returned" =>
        \A name \in GroupNames :
            result[ResultIndex(name)] = CollectedFrom(name, 1)

(***************************************************************************)
(* The CSV files iterated so far whose label is not a number.              *)
(***************************************************************************)
Unlabelled ==
    {p \in 1..i :
        /\ endswith_csv(listing[p].file_name)
        /\ float_raises(label_of(listing[p].file_name))}

PrintedFor(p) == {q \in 1..Len(stdout) : stdout[q].file_name = listing[p].file_name}

(***************************************************************************)
(* C18, as the claim states it.  A record whose label cannot be read as a  *)
(* number is still analysed, and its label is carried into the returned    *)
(* arrays or into the list of skipped records.  The code violates it:      *)
(* float() on line 117 raises before the file is read and analysed.        *)
(***************************************************************************)
C18_LabelCarried ==
    \A p \in Unlabelled :
        /\ i = p => Called
        /\ \/ p \in {origin["voltage_group"][q] :
                        q \in 1..Len(origin["voltage_group"])}
           \/ PrintedFor(p) # {}

(***************************************************************************)
(* C18, amended.  A record whose label cannot be read as a number is not   *)
(* analysed and contributes no entry to any returned array: the batch      *)
(* prints the name of the file with the conversion error, once, and goes   *)
(* on with the next file.                                                  *)
(***************************************************************************)
C18_UnlabelledSkipped ==
    \A p \in Unlabelled :
        /\ i = p => (frame = NoCall /\ pc # "raised")
        /\ \A name \in GroupNames :
              \A q \in 1..Len(origin[name]) : origin[name][q] # p
        /\ Cardinality(PrintedFor(p)) = 1
        /\ \A q \in PrintedFor(p) :
              stdout[q].e = "could not convert string to float"

\* Witness: a batch that returned after a file with the label x was passed
\* over and a later file was analysed with success.
C18_Witness ==
    /\ pc = "returned"
    /\ \E p \in Unlabelled : \E q \in Succeeded :
          /\ p < q
          /\ q \in {origin["voltage_group"][k] :
                       k \in 1..Len(origin["voltage_group"])}

C20_UnknownKeyRaisesFirst ==
    /\ \A k \in 1..Len(exits) :
          UnknownKeys(exits[k].frame.style_keys) # {} =>
              /\ exits[k].frame.exc = "ValueError"
              /\ exits[k].frame.tmp_path = 0
              /\ ~exits[k].frame.entered
              /\ ~exits[k].file_left
              /\ exits[k].style_after = exits[k].frame.style_before
              /\ exits[k].created_after = exits[k].frame.created_before
    /\ \A k \in 1..Len(contexts) :
          UnknownKeys(contexts[k].style_keys) # {} =>
              /\ contexts[k].pc \in {"start", "exit"}
              /\ contexts[k].tmp_path = 0
              /\ ~contexts[k].entered
              /\ active_style = contexts[k].style_before
              /\ created = contexts[k].created_before

\* Witness: a with statement over the keys sky and nokey, begun inside a
\* context that had applied its own style, has ended with ValueError.
C20_Witness ==
    \E k \in 1..Len(exits) :
        /\ exits[k].frame.style_keys = <<"sky", "nokey">>
        /\ exits[k].frame.exc = "ValueError"
        /\ exits[k].frame.style_before = StyleFile(1)
        /\ contexts # <<>>

(***************************************************************************)
(* C21.  The fall start time is the time that the scan rule of the trigger *)
(* edges reports for the first pair of the smoothed response that goes     *)
(* from strictly above the high level to strictly below it, and the rise   *)
(* end time the time it reports for the first pair that goes from strictly *)
(* below the high level to strictly above it; when there is no such pair   *)
(* the scan raises.                                                        *)
(***************************************************************************)
C21_HighLevelScans ==
    /\ Counted =>
          /\ frame.CH2 = savgol_filter(CalledData.CH2)
          /\ SelectedStrictly(frame.CH2, frame.CH2_high_level, "falling",
                              frame.CH2_fall_start_time)
    /\ (Called /\ frame.exc = "none") =>
          SelectedStrictly(frame.CH2, frame.CH2_high_level, "rising",
                           frame.CH2_rise_end_time)
    /\ (Called /\ frame.at = "CH2_fall_start_index") =>
          NoneStrictly(frame.CH2, frame.CH2_high_level, "falling")
    /\ (Called /\ frame.at = "CH2_rise_end_index") =>
          NoneStrictly(frame.CH2, frame.CH2_high_level, "rising")

\* Witness: a successful call on a record whose raw response first falls
\* through the high level at another pair than its smoothed response does.
C21_Witness ==
    /\ Called
    /\ frame.exc = "none"
    /\ ~SelectedStrictly(Raw(CalledData.CH2), frame.CH2_high_level, "falling",
                         frame.CH2_fall_start_time)
    /\ frame.CH2_rise_end_time # Unbound

(***************************************************************************)
(* What the batch run holds of the record at position p: the entries it    *)
(* appended to a list, and the messages printed for it.                    *)
(***************************************************************************)
ListOf(name) ==
    CASE name = "voltage_group" -> voltage_group
      [] name = "rise_time_group" -> rise_time_group
      [] name = "fall_time_group" -> fall_time_group
      [] name = "rise_response_time_group" -> rise_response_time_group
      [] name = "fall_response_time_group" -> fall_response_time_group

EntriesOf(name, p) ==
    {ListOf(name)[q] : q \in {r \in 1..Len(origin[name]) : origin[name][r] = p}}

MessagesOf(p) == {stdout[q].e : q \in PrintedFor(p)}

MetricNames == GroupNames \ {"voltage_group"}

\* Two records of the listing that hold the same waveform and have both
\* been iterated.
SameWaveform(p, q) ==
    /\ p \in Records /\ q \in Records
    /\ p <= i /\ q <= i
    /\ listing[p].data = listing[q].data

C23_MetricListsTogether ==
    \A name \in MetricNames :
        /\ Len(ListOf(name)) = Len(rise_time_group)
        /\ origin[name] = origin["rise_time_group"]
        /\ Len(origin[name]) = Len(ListOf(name))

\* Witness: one record has appended its metrics and a later one has failed,
\* in a run that ended normally or was left by the exception.
C23_Witness ==
    /\ i >= 2
    /\ Len(rise_time_group) = 1
    /\ Len(fall_response_time_group) = 1
    /\ \E p \in Records : p <= i /\ p \notin Succeeded
    /\ Len(voltage_group) > 1

(***************************************************************************)
(* The samples of the channel given to find_intersection that lie on the   *)
(* level, and the samples next to sample q.                                *)
(***************************************************************************)
OnLevel == {q \in 1..Len(fi.y) : fi.y[q] = fi.level}

Before(q) == IF q > 1 THEN q - 1 ELSE q
After(q) == IF q < Len(fi.y) THEN q + 1 ELSE q

\* The signal passes through sample q from one side of the level to the
\* other.
PassesThrough(q) ==
    /\ q \in OnLevel /\ q > 1 /\ q < Len(fi.y)
    /\ RLt(RMul(RSub(fi.y[q - 1], fi.level), RSub(fi.y[q + 1], fi.level)),
           RInt(0))

(***************************************************************************)
(* C24.  When a sample equals the level, find_intersection reports no      *)
(* crossing for either pair that contains the sample: no time it returns   *)
(* lies between the sample before and the sample after, even when the      *)
(* signal passes through the sample from one side of the level to the      *)
(* other; a channel every pair of which contains such a sample yields the  *)
(* empty list.                                                             *)
(***************************************************************************)
C24_NoCrossingThroughLevelSample ==
    Returned =>
        /\ \A q \in OnLevel :
              \A k \in 1..Len(fi.intersections) :
                  \/ RLt(fi.intersections[k], RInt(fi.x[Before(q)]))
                  \/ RLt(RInt(fi.x[After(q)]), fi.intersections[k])
        /\ (\A p \in Pairs : p \in OnLevel \/ p + 1 \in OnLevel) =>
              fi.intersections = <<>>

\* Witness: the signal passes through a sample on the level, and the call
\* returned a crossing from another pair only.
C24_Witness ==
    /\ Returned
    /\ \E q \in OnLevel : PassesThrough(q)
    /\ Len(fi.intersections) = 1

(***************************************************************************)
(* The scans of lines 72-89 have run on the fitted channel; the values the *)
(* channel takes.                                                          *)
(***************************************************************************)
Scanned == lf.pc = "scanned"

ValuesOf(ch) == {ch[p] : p \in 1..Len(ch)}

(***************************************************************************)
(* C25.  For a smoothed response channel that takes exactly two distinct   *)
(* values the analysis never yields metrics: the fitted high and low       *)
(* levels are the two values, no sample is strictly above the high level   *)
(* or strictly below the low level, the low level is crossed nowhere, and  *)
(* the first strict scan across the high level finds no pair and raises.   *)
(***************************************************************************)
C25_TwoValuedNeverYields ==
    (Scanned /\ Cardinality(ValuesOf(lf.frame.CH2)) = 2) =>
        LET f == lf.frame IN
        /\ f.exc = "IndexError"
        /\ f.at = "CH2_fall_start_index"
        /\ f.ret = NoLocals.ret
        /\ f.CH2_rise_duration = Unbound /\ f.CH2_fall_duration = Unbound
        /\ f.CH2_high_level = np_max(f.CH2)
        /\ f.CH2_low_level = np_min(f.CH2)
        /\ Above(f.CH2, f.CH2_high_level) = {}
        /\ Below(f.CH2, f.CH2_low_level) = {}
        /\ find_intersection(lf.data.Time, f.CH2, f.CH2_low_level) = <<>>

\* Witness: a square response, low, high, high, low, low, has been scanned.
C25_Witness ==
    /\ Scanned
    /\ ValuesOf(lf.frame.CH2) = {RInt(0), RInt(3)}
    /\ Len(lf.frame.CH2) = 5
    /\ lf.frame.CH2[1] = RInt(0) /\ lf.frame.CH2[2] = RInt(3)
    /\ lf.frame.CH2[3] = RInt(3) /\ lf.frame.CH2[4] = RInt(0)
    /\ lf.frame.exc # "none"

(***************************************************************************)
(* C26, as the claim states it.  Every successful analysis yields a rise   *)
(* duration and a fall duration that are not negative: the time used as    *)
(* fall end is never earlier than the fall start, and the time used as     *)
(* rise end never earlier than the rise start.  The code violates it:      *)
(* lines 80-89 subtract the times without ordering them.                   *)
(***************************************************************************)
C26_DurationsNotNegative ==
    (Called /\ frame.exc = "none") =>
        /\ RLe(RInt(0), frame.ret[1])
        /\ RLe(RInt(0), frame.ret[2])
        /\ RLe(frame.CH2_fall_start_time, frame.CH2_fall_end_time)
        /\ RLe(frame.CH2_rise_start_time, frame.CH2_rise_end_time)

(***************************************************************************)
(* The call reached the level fit of line 63; its smoothed response is     *)
(* constant.                                                               *)
(***************************************************************************)
ReachedLevelFit == TriggerEdgesBound

Constant(ch) == Cardinality(ValuesOf(ch)) = 1

=============================================================================
